---- MODULE Spec2Model ----
(***************************************************************************)
(* Pet Manager Pro: the three variants of script.js as one state machine.  *)
(*   "basic"   src/js/script.js       (no cancel button)                    *)
(*   "cancel"  src/unnamed/part_000   (cancel button, robust filter)        *)
(*   "routing" src/unnamed/part_001   (hash routing with showPage)          *)
(* Strings are sequences of one-character strings, so that toLowerCase,     *)
(* includes, trim and parseInt are computed and not assumed.                *)
(***************************************************************************)
EXTENDS Integers, Sequences, FiniteSets, TLC

\* ---------------------------------------------------------------- bounds
MaxPets == 2
MaxClock == 2
MaxTimers == 2
MaxHist == 2
MaxFails == 1

\* ---------------------------------------------------------------- text
Upper == <<"A","B","C","D","E","F","G","H","I","J","K","L","M",
           "N","O","P","Q","R","S","T","U","V","W","X","Y","Z">>
LowerCase == <<"a","b","c","d","e","f","g","h","i","j","k","l","m",
           "n","o","p","q","r","s","t","u","v","w","x","y","z">>
Digits == <<"0","1","2","3","4","5","6","7","8","9">>
WhiteSpace == {" "}

IndexOf(seq, c) == IF \E i \in 1..Len(seq) : seq[i] = c
                   THEN CHOOSE i \in 1..Len(seq) : seq[i] = c
                   ELSE 0

\* String.prototype.toLowerCase
toLowerCase(s) ==
    [i \in 1..Len(s) |-> IF IndexOf(Upper, s[i]) # 0
                         THEN LowerCase[IndexOf(Upper, s[i])]
                         ELSE s[i]]

\* String.prototype.includes
includes(s, t) ==
    \E i \in 0..(Len(s) - Len(t)) : SubSeq(s, i + 1, i + Len(t)) = t

RECURSIVE trimStart(_)
trimStart(s) == IF s # <<>> /\ Head(s) \in WhiteSpace THEN trimStart(Tail(s)) ELSE s

RECURSIVE trimEnd(_)
trimEnd(s) == IF s # <<>> /\ s[Len(s)] \in WhiteSpace
              THEN trimEnd(SubSeq(s, 1, Len(s) - 1))
              ELSE s

\* String.prototype.trim
trim(s) == trimEnd(trimStart(s))

\* ---------------------------------------------------------------- numbers
\* An age held by a record: a number, NaN (parseInt of a non-number) or
\* null (what JSON.stringify writes for NaN and JSON.parse reads back).
Num(n) == [t |-> "num", v |-> n]
NaN == [t |-> "nan", v |-> 0]
JsNull == [t |-> "null", v |-> 0]

RECURSIVE digitPrefix(_, _, _)
digitPrefix(s, acc, seen) ==
    IF s # <<>> /\ IndexOf(Digits, Head(s)) # 0
    THEN digitPrefix(Tail(s), acc * 10 + (IndexOf(Digits, Head(s)) - 1), TRUE)
    ELSE [seen |-> seen, value |-> acc]

\* parseInt(text, 10): leading white space, a sign, the longest digit prefix
parseInt(s) ==
    LET t == trimStart(s)
        signed == t # <<>> /\ Head(t) \in {"+", "-"}
        r == digitPrefix(IF signed THEN Tail(t) ELSE t, 0, FALSE)
    IN  IF ~r.seen THEN NaN
        ELSE Num(IF signed /\ Head(t) = "-" THEN 0 - r.value ELSE r.value)

RECURSIVE natText(_)
natText(n) == IF n < 10 THEN <<Digits[n + 1]>>
              ELSE Append(natText(n \div 10), Digits[(n % 10) + 1])

\* the text an input field holds after `field.value = pet.age`
ageText(a) ==
    IF a.t = "num" THEN (IF a.v < 0 THEN <<"-">> \o natText(0 - a.v) ELSE natText(a.v))
    ELSE IF a.t = "nan" THEN <<"N", "a", "N">>
    ELSE <<>>

\* ---------------------------------------------------------------- records
EmptyText == <<>>
AllFilter == <<"a", "l", "l">>

\* what the user can leave in the form fields before pressing submit
FormInputs ==
    { [name |-> <<"R", "e", "x">>, species |-> <<"D", "o", "g">>, age |-> <<"3">>],
      [name |-> <<" ", "m", "i", "a">>, species |-> <<"c", "a", "t">>, age |-> EmptyText] }
\* what the user can leave in the search box and the species filter
SearchInputs ==
    { [search |-> EmptyText, filter |-> AllFilter],
      [search |-> <<"R", "E">>, filter |-> <<"d", "o", "g">>] }
EmptyForm == [name |-> EmptyText, species |-> EmptyText, age |-> EmptyText]

\* { ...a, ...b }: object spread, the fields of b laid over those of a
spread(a, b) ==
    [k \in (DOMAIN a) \cup (DOMAIN b) |-> IF k \in DOMAIN b THEN b[k] ELSE a[k]]

\* petData as handleFormSubmit builds it from the three fields
petData(frm) ==
    [name |-> trim(frm.name), species |-> frm.species, age |-> parseInt(frm.age)]

\* ---------------------------------------------------------------- store
\* The text under a localStorage key, by what JSON.parse makes of it.
NoItem == [kind |-> "absent", items |-> <<>>]
EmptyItem == [kind |-> "empty", items |-> <<>>]
GarbageItem == [kind |-> "garbage", items |-> <<>>]
NullItem == [kind |-> "null", items |-> <<>>]
NumberItem == [kind |-> "number", items |-> <<>>]
ArrayValue(items) == [kind |-> "array", items |-> items]

\* JSON.stringify of one record: NaN is written as null
jsonRecord(r) ==
    IF "age" \in DOMAIN r /\ r.age.t = "nan" THEN [r EXCEPT !.age = JsNull] ELSE r

JSONstringify(ps) == ArrayValue([i \in 1..Len(ps) |-> jsonRecord(ps[i])])

\* loadPets: the value it returns, as [kind, items]
loadPets(entry, readOk) ==
    IF ~readOk THEN ArrayValue(<<>>)
    ELSE IF entry.kind \in {"absent", "empty"} THEN ArrayValue(<<>>)
    ELSE IF entry.kind = "garbage" THEN ArrayValue(<<>>)
    ELSE [kind |-> entry.kind, items |-> entry.items]

\* savePets that adds the records to the stored list
savePets_appended(entry, petsToSave, writeOk) ==
    IF writeOk
    THEN ArrayValue((IF entry.kind = "array" THEN entry.items ELSE <<>>)
                    \o JSONstringify(petsToSave).items)
    ELSE entry

\* savePets that returns without writing
savePets_skipped(entry, petsToSave, writeOk) == entry

\* savePets that removes the entry before a write that then fails
savePets_cleared(entry, petsToSave, writeOk) ==
    IF writeOk THEN JSONstringify(petsToSave) ELSE NoItem

\* savePets: the entry under 'pets' afterwards
savePets(entry, petsToSave, writeOk) ==
    IF writeOk THEN JSONstringify(petsToSave) ELSE entry

\* ---------------------------------------------------------------- repository
\* Array.prototype.findIndex on p.id === id; 0 stands for the code's -1
findIndex(ps, id) ==
    IF \E i \in 1..Len(ps) : ps[i].id = id
    THEN CHOOSE i \in 1..Len(ps) : ps[i].id = id /\ \A j \in 1..(i - 1) : ps[j].id # id
    ELSE 0

\* addPet that puts the new record first
addPet_unshift(ps, data, timestamp) == <<spread([id |-> timestamp], data)>> \o ps

addPet(ps, data, timestamp) == Append(ps, spread([id |-> timestamp], data))

\* updatePet that adds the draft as a record when no record has the id
updatePet_upsert(ps, id, newPetData) ==
    IF findIndex(ps, id) # 0
    THEN [ps EXCEPT ![findIndex(ps, id)] = spread(ps[findIndex(ps, id)], newPetData)]
    ELSE Append(ps, spread([id |-> id], newPetData))

\* updatePet that takes the position of the record for its id
updatePet_reindexed(ps, id, newPetData) ==
    IF findIndex(ps, id) # 0
    THEN [ps EXCEPT ![findIndex(ps, id)] =
              spread(spread(ps[findIndex(ps, id)], newPetData), [id |-> findIndex(ps, id)])]
    ELSE ps

\* updatePet that stores the draft in place of the record
updatePet_replace(ps, id, newPetData) ==
    IF findIndex(ps, id) # 0 THEN [ps EXCEPT ![findIndex(ps, id)] = newPetData] ELSE ps

updatePet(ps, id, newPetData) ==
    LET index == findIndex(ps, id)
    IN  IF index # 0 THEN [ps EXCEPT ![index] = spread(ps[index], newPetData)] ELSE ps

\* a removal whose test is turned round: it keeps the records with the id
removePet_inverted(ps, id) == SelectSeq(ps, LAMBDA p : p.id = id)

\* a removal that takes out the first record with the id only
removePet_first(ps, id) ==
    IF findIndex(ps, id) = 0 THEN ps
    ELSE SubSeq(ps, 1, findIndex(ps, id) - 1) \o SubSeq(ps, findIndex(ps, id) + 1, Len(ps))

\* pets.filter(p => p.id !== id)
removePet(ps, id) == SelectSeq(ps, LAMBDA p : p.id # id)

\* ---------------------------------------------------------------- render
matchesSearch(pet, searchTerm) ==
    \/ includes(toLowerCase(pet.name), searchTerm)
    \/ includes(toLowerCase(pet.species), searchTerm)

matchesFilter_basic(pet, filterValue) ==
    filterValue = AllFilter \/ pet.species = filterValue

matchesFilter(pet, filterValue) ==
    filterValue = AllFilter \/ toLowerCase(pet.species) = filterValue

filteredPets_basic(currentPets, searchValue, filterValue) ==
    SelectSeq(currentPets, LAMBDA pet :
        /\ matchesSearch(pet, toLowerCase(searchValue))
        /\ matchesFilter_basic(pet, filterValue))

filteredPets(ps, searchValue, filterValue) ==
    SelectSeq(ps, LAMBDA pet :
        /\ matchesSearch(pet, toLowerCase(searchValue))
        /\ matchesFilter(pet, toLowerCase(filterValue)))

\* ---------------------------------------------------------------- state
VARIABLES
    variant,        \* which script.js runs: "basic", "cancel" or "routing"
    phase,          \* "boot" before init, "running" once the listeners are set, "crashed" when init threw
    now,            \* Date.now()
    pets,           \* the in-memory collection
    loaded,         \* the value the last loadPets() returned
    petsEntry,      \* localStorage 'pets'
    themeEntry,     \* localStorage 'theme'
    dataTheme,      \* <html data-theme>
    prefersDark,    \* matchMedia('(prefers-color-scheme: dark)').matches
    editingPetId,   \* 0 stands for null
    form,           \* the three form fields as the script last set them
    searchInput,    \* searchInput.value
    filterSpecies,  \* filterSpecies.value
    petList,        \* the <li> children of #pet-list, by the record each shows
    emptyState,     \* emptyState.style.display
    petCount,       \* petCountSpan.textContent
    timers,         \* pending setTimeout(..., 400) callbacks, in firing order
    display,        \* page.style.display of the two pages
    active,         \* which pages carry the class active-page
    navActive,      \* the page whose nav link carries the class active
    history,        \* the session history entries (URL fragments)
    histIdx,        \* the current entry
    last,           \* the handler that ran last, and what its store access did
    call,           \* the arguments of the last direct call of a repository function
    mutated,        \* some add, update or delete has completed
    failedWrites,   \* how many localStorage.setItem('pets', ...) calls have thrown
    peer            \* a second tab on the same store: whether it has run init, its pets

repoVars == <<pets, loaded, petsEntry>>
themeVars == <<themeEntry, dataTheme, prefersDark>>
formVars == <<editingPetId, form>>
inputVars == <<searchInput, filterSpecies>>
viewVars == <<petList, emptyState, petCount>>
routerVars == <<display, active, navActive, history, histIdx>>
ghostVars == <<last, call, mutated, failedWrites>>
vars == <<variant, peer, phase, now, repoVars, themeVars, formVars, inputVars, viewVars,
          timers, routerVars, ghostVars>>

Variants == {"basic", "cancel", "routing"}
PageIds == {"dashboard", "manage-pet"}
allPages == <<"dashboard", "manage-pet">>
NoTheme == "<absent>"
CssDisplay == "<stylesheet>"

\* a record as an earlier session left it in the store
StoredPet(id, frm) == jsonRecord(spread([id |-> id], petData(frm)))
RexInput == CHOOSE f \in FormInputs : f.age # EmptyText

\* what localStorage 'pets' can hold when the page is opened
InitialEntries == { NoItem, ArrayValue(<<StoredPet(1, RexInput)>>) }
\* the URL fragment the page is opened with
InitialHashes == { "", "settings" }

\* the second tab before it is opened; since holds the records it has saved
\* after this tab loaded
NoPeer == [open |-> FALSE, pets |-> <<>>, added |-> FALSE, since |-> {}]

Op(op, id, io) == [op |-> op, id |-> id, io |-> io]
\* the delete callback, with the number of records its filter dropped
Removed(id, io, n) == [op |-> "removed", id |-> id, io |-> io, n |-> n]
NoCall == [draft |-> <<>>, before |-> <<>>]

Init ==
    /\ variant \in Variants
    /\ phase = "boot"
    /\ petsEntry \in InitialEntries
    /\ now = Len(petsEntry.items) + 1
    /\ pets = <<>>
    /\ loaded = ArrayValue(<<>>)
    /\ themeEntry = NoTheme
    /\ dataTheme = NoTheme
    /\ prefersDark = FALSE
    /\ editingPetId = 0
    /\ form = EmptyForm
    /\ searchInput = EmptyText
    /\ filterSpecies = AllFilter
    /\ petList = <<>>
    /\ emptyState = CssDisplay
    /\ petCount = 0
    /\ timers = <<>>
    /\ display = [p \in PageIds |-> CssDisplay]
    /\ active = [p \in PageIds |-> FALSE]
    /\ navActive = ""
    /\ history \in IF variant = "routing" THEN { <<h>> : h \in InitialHashes } ELSE { <<"">> }
    /\ histIdx = 1
    /\ last = Op("none", 0, "none")
    /\ call = NoCall
    /\ mutated = FALSE
    /\ failedWrites = 0
    /\ peer = NoPeer

\* ---------------------------------------------------------------- theme
\* a resolution that asks the OS before the store
themeToSet_osFirst(savedTheme, systemPrefersDark) ==
    IF systemPrefersDark THEN "dark"
    ELSE IF savedTheme # NoTheme /\ savedTheme # "" THEN savedTheme
    ELSE "light"

\* loadThemePreference: stored value, else the OS signal, else light
themeToSet(savedTheme, systemPrefersDark) ==
    IF savedTheme # NoTheme /\ savedTheme # "" THEN savedTheme
    ELSE IF systemPrefersDark THEN "dark"
    ELSE "light"

\* loadThemePreference() then setTheme(): neither catches a storage exception.
\* TRUE in themeDone means both calls returned.
loadThemePreference(readOk, writeOk) ==
    /\ dataTheme' = IF readOk THEN themeToSet(themeEntry, prefersDark) ELSE dataTheme
    /\ themeEntry' = IF readOk /\ writeOk THEN themeToSet(themeEntry, prefersDark)
                     ELSE themeEntry
    /\ UNCHANGED prefersDark

\* ---------------------------------------------------------------- view
\* renderPets() of src/js/script.js, called without an argument
renderPets_basic(ps, searchValue, filterValue) ==
    LET shown == filteredPets_basic(ps, searchValue, filterValue)
    IN  /\ petList' = shown
        /\ emptyState' = IF Len(shown) = 0 THEN "block" ELSE "none"
        /\ petCount' = Len(shown)

\* renderPets of src/js/script.js as the listener of 'input' and 'change': the
\* event object arrives as currentPets, the list is cleared and
\* currentPets.filter throws before anything else is touched
renderPets_event ==
    /\ petList' = <<>>
    /\ UNCHANGED <<emptyState, petCount>>

renderPets(ps, searchValue, filterValue) ==
    LET shown == filteredPets(ps, searchValue, filterValue)
    IN  /\ petList' = shown
        /\ emptyState' = IF Len(shown) = 0 THEN "block" ELSE "none"
        /\ petCount' = Len(shown)

\* resetForm that clears the fields and keeps the edit target
resetForm_keepTarget ==
    /\ form' = EmptyForm
    /\ UNCHANGED editingPetId

resetForm ==
    /\ form' = EmptyForm
    /\ editingPetId' = 0

\* ---------------------------------------------------------------- router
hideTimer(page) == [kind |-> "hide", id |-> 0, page |-> page]
deleteTimer(id) == [kind |-> "delete", id |-> id, page |-> ""]

\* the deactivation callbacks showPage schedules, in the order of allPages
deactivations(pageId) ==
    LET others == SelectSeq(allPages, LAMBDA p : p # pageId)
    IN  [i \in 1..Len(others) |-> hideTimer(others[i])]

\* history.pushState: the entries after the current one are dropped, the new
\* one is appended, and the browser forgets the oldest beyond its limit
pushState(entries, idx, fragment) ==
    LET pushed == Append(SubSeq(entries, 1, idx), fragment)
    IN  IF Len(pushed) > MaxHist THEN Tail(pushed) ELSE pushed

\* showPage whose manage-pet entry resets the form whether or not an edit is
\* in progress
showPage_resets(pageId, tq, ps, eid, frm, idx) ==
    LET pageFound == pageId \in PageIds
        shownId == IF pageFound THEN pageId ELSE "dashboard"
    IN  /\ Len(tq) + Len(deactivations(pageId)) <= MaxTimers
        /\ active' = [p \in PageIds |-> p = shownId]
        /\ display' = [p \in PageIds |-> IF p = shownId THEN "block" ELSE display[p]]
        /\ timers' = tq \o deactivations(pageId)
        /\ history' = pushState(history, idx, shownId)
        /\ histIdx' = Len(history')
        /\ navActive' = shownId
        /\ IF shownId = "dashboard"
           THEN /\ renderPets(ps, searchInput, filterSpecies)
                /\ editingPetId' = eid
                /\ form' = frm
           ELSE /\ UNCHANGED viewVars
                /\ editingPetId' = 0
                /\ form' = EmptyForm

\* showPage(pageId), run with the timer queue tq, the collection ps, the edit
\* target eid, the form frm and the history position idx its caller left
showPage(pageId, tq, ps, eid, frm, idx) ==
    LET pageFound == pageId \in PageIds
        shownId == IF pageFound THEN pageId ELSE "dashboard"
    IN  /\ Len(tq) + Len(deactivations(pageId)) <= MaxTimers
        /\ active' = [p \in PageIds |-> p = shownId]
        /\ display' = [p \in PageIds |-> IF p = shownId THEN "block" ELSE display[p]]
        /\ timers' = tq \o deactivations(pageId)
        /\ history' = pushState(history, idx, shownId)
        /\ histIdx' = Len(history')
        /\ navActive' = shownId
        /\ IF shownId = "dashboard"
           THEN /\ renderPets(ps, searchInput, filterSpecies)
                /\ editingPetId' = eid
                /\ form' = frm
           ELSE /\ UNCHANGED viewVars
                /\ editingPetId' = (IF eid = 0 THEN 0 ELSE eid)
                /\ form' = (IF eid = 0 THEN EmptyForm ELSE frm)

\* handleLocation(): the fragment of the current entry, dashboard when empty
handleLocation(idx, tq, ps, eid, frm) ==
    LET hash == history[idx]
        pageId == IF hash # "" THEN hash ELSE "dashboard"
    IN  showPage(pageId, tq, ps, eid, frm, idx)

\* ---------------------------------------------------------------- init
\* script evaluation and the DOMContentLoaded listener, src/js/script.js
init_basic(readOk, themeReadOk, themeWriteOk) ==
    /\ variant = "basic"
    /\ phase = "boot"
    /\ loaded' = loadPets(petsEntry, readOk)
    /\ pets' = loaded'.items
    /\ loadThemePreference(themeReadOk, themeWriteOk)
    /\ IF themeReadOk /\ themeWriteOk
       THEN /\ renderPets_basic(pets', searchInput, filterSpecies)
            /\ phase' = "running"
       ELSE /\ UNCHANGED viewVars
            /\ phase' = "crashed"
    /\ last' = Op("init", 0, "none")
    /\ UNCHANGED <<variant, peer, call, now, petsEntry, formVars, inputVars, timers, routerVars,
                   mutated, failedWrites>>

init_cancel(readOk, themeReadOk, themeWriteOk) ==
    /\ variant = "cancel"
    /\ phase = "boot"
    /\ loaded' = loadPets(petsEntry, readOk)
    /\ pets' = loaded'.items
    /\ loadThemePreference(themeReadOk, themeWriteOk)
    /\ IF themeReadOk /\ themeWriteOk
       THEN /\ renderPets(pets', searchInput, filterSpecies)
            /\ phase' = "running"
       ELSE /\ UNCHANGED viewVars
            /\ phase' = "crashed"
    /\ last' = Op("init", 0, "none")
    /\ UNCHANGED <<variant, peer, call, now, petsEntry, formVars, inputVars, timers, routerVars,
                   mutated, failedWrites>>

init_routing(readOk, themeReadOk, themeWriteOk) ==
    /\ variant = "routing"
    /\ phase = "boot"
    /\ loaded' = loadPets(petsEntry, readOk)
    /\ pets' = loaded'.items
    /\ loadThemePreference(themeReadOk, themeWriteOk)
    /\ IF themeReadOk /\ themeWriteOk
       THEN /\ handleLocation(histIdx, timers, pets', editingPetId, form)
            /\ phase' = "running"
       ELSE /\ UNCHANGED <<viewVars, formVars, timers, routerVars>>
            /\ phase' = "crashed"
    /\ last' = Op("init", 0, "none")
    /\ UNCHANGED <<variant, peer, call, now, petsEntry, inputVars, mutated, failedWrites>>

\* ---------------------------------------------------------------- environment
\* the clock advances
Tick ==
    /\ now < MaxClock
    /\ now' = now + 1
    /\ UNCHANGED <<variant, peer, phase, repoVars, themeVars, formVars, inputVars, viewVars,
                   timers, routerVars, ghostVars>>

\* the browser raises 'submit' only when the required name field is filled
checkValidity(frm) == frm.name # EmptyText

\* ---------------------------------------------------------------- submit
writeOutcome(wrote, writeOk) ==
    IF ~wrote THEN "none" ELSE IF writeOk THEN "ok" ELSE "failed"

\* the repository half of handleFormSubmit, the fields holding frm when the
\* event is raised: petData, then updatePet or addPet
submitPet(frm, writeOk) ==
    LET data == petData(frm)
        creating == editingPetId = 0
        wrote == creating \/ findIndex(pets, editingPetId) # 0
        newPets == IF creating THEN addPet(pets, data, now)
                   ELSE updatePet(pets, editingPetId, data)
    IN  /\ checkValidity(frm)
        /\ creating => Len(pets) < MaxPets
        /\ pets' = newPets
        /\ petsEntry' = IF wrote THEN savePets(petsEntry, newPets, writeOk) ELSE petsEntry
        /\ last' = Op("submit", editingPetId, writeOutcome(wrote, writeOk))
        /\ mutated' = (mutated \/ wrote)
        /\ wrote /\ ~writeOk => failedWrites < MaxFails
        /\ failedWrites' = failedWrites + (IF wrote /\ ~writeOk THEN 1 ELSE 0)
        /\ UNCHANGED loaded

handleFormSubmit_basic(frm, writeOk) ==
    /\ variant = "basic"
    /\ phase = "running"
    /\ submitPet(frm, writeOk)
    /\ resetForm
    /\ renderPets_basic(pets', searchInput, filterSpecies)
    /\ UNCHANGED <<variant, peer, call, phase, now, themeVars, inputVars, timers, routerVars>>

handleFormSubmit_cancel(frm, writeOk) ==
    /\ variant = "cancel"
    /\ phase = "running"
    /\ submitPet(frm, writeOk)
    /\ resetForm
    /\ renderPets(pets', searchInput, filterSpecies)
    /\ UNCHANGED <<variant, peer, call, phase, now, themeVars, inputVars, timers, routerVars>>

handleFormSubmit_routing(frm, writeOk) ==
    /\ variant = "routing"
    /\ phase = "running"
    /\ submitPet(frm, writeOk)
    /\ showPage("dashboard", timers, pets', 0, EmptyForm, histIdx)
    /\ UNCHANGED <<variant, peer, call, phase, now, themeVars, inputVars>>

\* ---------------------------------------------------------------- edit
\* the ids that have an edit and a delete button in the list
listed == { petList[i].id : i \in 1..Len(petList) }

\* pets.find(p => p.id === id)
find(ps, id) == ps[findIndex(ps, id)]

\* the fields startEdit writes into the form
prefill(petToEdit) ==
    [name |-> petToEdit.name, species |-> petToEdit.species, age |-> ageText(petToEdit.age)]

startEdit(id) ==
    /\ variant \in {"basic", "cancel"}
    /\ phase = "running"
    /\ id \in listed
    /\ IF findIndex(pets, id) # 0
       THEN /\ form' = prefill(find(pets, id))
            /\ editingPetId' = id
       ELSE UNCHANGED formVars
    /\ last' = Op("other", 0, "none")
    /\ UNCHANGED <<variant, peer, call, phase, now, repoVars, themeVars, inputVars, viewVars, timers,
                   routerVars, mutated, failedWrites>>

startEdit_routing(id) ==
    /\ variant = "routing"
    /\ phase = "running"
    /\ id \in listed
    /\ IF findIndex(pets, id) # 0
       THEN showPage("manage-pet", timers, pets, id, prefill(find(pets, id)), histIdx)
       ELSE UNCHANGED <<formVars, viewVars, timers, routerVars>>
    /\ last' = Op("edit", id, "none")
    /\ UNCHANGED <<variant, peer, call, phase, now, repoVars, themeVars, inputVars, mutated,
                   failedWrites>>

\* the cancel button: resetForm (part_000), resetForm and showPage (part_001)
cancelEdit ==
    /\ variant = "cancel"
    /\ phase = "running"
    /\ resetForm
    /\ last' = Op("cancel", editingPetId, "none")
    /\ UNCHANGED <<variant, peer, call, phase, now, repoVars, themeVars, inputVars, viewVars, timers,
                   routerVars, mutated, failedWrites>>

cancelEdit_routing ==
    /\ variant = "routing"
    /\ phase = "running"
    /\ showPage("dashboard", timers, pets, 0, EmptyForm, histIdx)
    /\ last' = Op("cancel", editingPetId, "none")
    /\ UNCHANGED <<variant, peer, call, phase, now, repoVars, themeVars, inputVars, mutated,
                   failedWrites>>

\* ---------------------------------------------------------------- delete
\* deletePet(id): the list item is found, fades out, and the removal is scheduled
deletePet(id) ==
    /\ phase = "running"
    /\ id \in listed
    /\ Len(timers) < MaxTimers
    /\ timers' = Append(timers, deleteTimer(id))
    /\ last' = Op("other", 0, "none")
    /\ UNCHANGED <<variant, peer, call, phase, now, repoVars, themeVars, formVars, inputVars, viewVars,
                   routerVars, mutated, failedWrites>>

\* the repository half of the callback deletePet schedules
removeAndSave(id, writeOk) ==
    /\ pets' = removePet(pets, id)
    /\ petsEntry' = savePets(petsEntry, pets', writeOk)
    /\ last' = Removed(id, writeOutcome(TRUE, writeOk), Len(pets) - Len(pets'))
    /\ mutated' = TRUE
    /\ ~writeOk => failedWrites < MaxFails
    /\ failedWrites' = failedWrites + (IF writeOk THEN 0 ELSE 1)
    /\ UNCHANGED loaded

deleteCallback_basic(writeOk) ==
    /\ variant = "basic"
    /\ timers # <<>> /\ Head(timers).kind = "delete"
    /\ removeAndSave(Head(timers).id, writeOk)
    /\ renderPets_basic(pets', searchInput, filterSpecies)
    /\ timers' = Tail(timers)
    /\ UNCHANGED <<variant, peer, call, phase, now, themeVars, formVars, inputVars, routerVars>>

deleteCallback_cancel(writeOk) ==
    /\ variant = "cancel"
    /\ timers # <<>> /\ Head(timers).kind = "delete"
    /\ removeAndSave(Head(timers).id, writeOk)
    /\ renderPets(pets', searchInput, filterSpecies)
    /\ IF editingPetId = Head(timers).id THEN resetForm ELSE UNCHANGED formVars
    /\ timers' = Tail(timers)
    /\ UNCHANGED <<variant, peer, call, phase, now, themeVars, inputVars, routerVars>>

deleteCallback_routing(writeOk) ==
    /\ variant = "routing"
    /\ timers # <<>> /\ Head(timers).kind = "delete"
    /\ removeAndSave(Head(timers).id, writeOk)
    /\ IF editingPetId = Head(timers).id
       THEN showPage("dashboard", Tail(timers), pets', 0, EmptyForm, histIdx)
       ELSE /\ renderPets(pets', searchInput, filterSpecies)
            /\ timers' = Tail(timers)
            /\ UNCHANGED <<formVars, routerVars>>
    /\ UNCHANGED <<variant, peer, call, phase, now, themeVars, inputVars>>

\* the callback showPage schedules for a page it deactivates
hideCallback ==
    /\ timers # <<>> /\ Head(timers).kind = "hide"
    /\ display' = [display EXCEPT ![Head(timers).page] = "none"]
    /\ timers' = Tail(timers)
    /\ last' = Op("other", 0, "none")
    /\ UNCHANGED <<variant, peer, call, phase, now, repoVars, themeVars, formVars, inputVars, viewVars,
                   active, navActive, history, histIdx, mutated, failedWrites>>

\* ---------------------------------------------------------------- search
\* 'input' on the search box and 'change' on the species filter
searchChanged_basic(searchValue, filterValue) ==
    /\ variant = "basic"
    /\ phase = "running"
    /\ searchInput' = searchValue
    /\ filterSpecies' = filterValue
    /\ renderPets_event
    /\ last' = Op("other", 0, "none")
    /\ UNCHANGED <<variant, peer, call, phase, now, repoVars, themeVars, formVars, timers, routerVars,
                   mutated, failedWrites>>

searchChanged(searchValue, filterValue) ==
    /\ variant \in {"cancel", "routing"}
    /\ phase = "running"
    /\ searchInput' = searchValue
    /\ filterSpecies' = filterValue
    /\ renderPets(pets, searchValue, filterValue)
    /\ last' = Op("other", 0, "none")
    /\ UNCHANGED <<variant, peer, call, phase, now, repoVars, themeVars, formVars, timers, routerVars,
                   mutated, failedWrites>>

\* ---------------------------------------------------------------- navigation
\* a click on a nav link
navClick(pageId) ==
    /\ variant = "routing"
    /\ phase = "running"
    /\ showPage(pageId, timers, pets, editingPetId, form, histIdx)
    /\ last' = Op("nav", 0, "none")
    /\ UNCHANGED <<variant, peer, call, phase, now, repoVars, themeVars, inputVars, mutated,
                   failedWrites>>

\* the back button: the browser moves to the previous entry and raises popstate
popstate ==
    /\ variant = "routing"
    /\ phase = "running"
    /\ histIdx > 1
    /\ handleLocation(histIdx - 1, timers, pets, editingPetId, form)
    /\ last' = Op("back", 0, "none")
    /\ UNCHANGED <<variant, peer, call, phase, now, repoVars, themeVars, inputVars, mutated,
                   failedWrites>>

\* ---------------------------------------------------------------- specification
\* the fields at a submit: what startEdit or resetForm left, or what the user typed
FieldValues == FormInputs \cup {form}

\* every handler, with the store writes ending as writeOutcomes allows
Handlers(writeOutcomes) ==
    \/ \E r, tr, tw \in BOOLEAN : init_basic(r, tr, tw)
    \/ \E r, tr, tw \in BOOLEAN : init_cancel(r, tr, tw)
    \/ \E r, tr, tw \in BOOLEAN : init_routing(r, tr, tw)
    \/ \E frm \in FieldValues, ok \in writeOutcomes : handleFormSubmit_basic(frm, ok)
    \/ \E frm \in FieldValues, ok \in writeOutcomes : handleFormSubmit_cancel(frm, ok)
    \/ \E frm \in FieldValues, ok \in writeOutcomes : handleFormSubmit_routing(frm, ok)
    \/ \E id \in 1..MaxClock : startEdit(id)
    \/ \E id \in 1..MaxClock : startEdit_routing(id)
    \/ cancelEdit
    \/ cancelEdit_routing
    \/ \E id \in 1..MaxClock : deletePet(id)
    \/ \E ok \in writeOutcomes : deleteCallback_basic(ok)
    \/ \E ok \in writeOutcomes : deleteCallback_cancel(ok)
    \/ \E ok \in writeOutcomes : deleteCallback_routing(ok)
    \/ hideCallback
    \/ \E i \in SearchInputs : searchChanged_basic(i.search, i.filter)
    \/ \E i \in SearchInputs : searchChanged(i.search, i.filter)
    \/ \E p \in PageIds : navClick(p)
    \/ popstate

Environment == Tick

\* the store accepts every write
Next == Environment \/ Handlers({TRUE})

Spec == Init /\ [][Next]_vars

\* a write can exceed the quota
NextQuota == Environment \/ Handlers(BOOLEAN)

SpecQuota == Init /\ [][NextQuota]_vars

\* ---------------------------------------------------------------- the repository alone
\* The functions of the store adapter and the repository, called directly on
\* every small collection and every kind of stored text.
RepoRecords == { spread([id |-> id], petData(frm)) : id \in 1..MaxClock, frm \in FormInputs }

RECURSIVE SeqsUpTo(_, _)
SeqsUpTo(S, n) ==
    IF n = 0 THEN { <<>> }
    ELSE SeqsUpTo(S, n - 1) \cup
         { Append(q, x) : q \in { r \in SeqsUpTo(S, n - 1) : Len(r) = n - 1 }, x \in S }

RepoCollections == SeqsUpTo(RepoRecords, MaxPets)

StoreEntries ==
    { NoItem, EmptyItem, GarbageItem, NullItem, NumberItem } \cup
    { JSONstringify(c) : c \in RepoCollections }

\* the drafts updatePet is called with: some fields, all fields, none
Drafts ==
    { [age |-> Num(5)],
      [name |-> <<"M", "a", "x">>, species |-> <<"c", "a", "t">>],
      [name |-> <<"M", "a", "x">>, species |-> <<"D", "o", "g">>, age |-> NaN],
      <<>> }

InitRepo ==
    /\ variant = "cancel"
    /\ phase = "boot"
    /\ \/ pets \in RepoCollections /\ petsEntry = NoItem
       \/ pets = <<>> /\ petsEntry \in StoreEntries
    /\ now = MaxClock
    /\ loaded = ArrayValue(<<>>)
    /\ themeEntry = NoTheme
    /\ dataTheme = NoTheme
    /\ prefersDark = FALSE
    /\ editingPetId = 0
    /\ form = EmptyForm
    /\ searchInput = EmptyText
    /\ filterSpecies = AllFilter
    /\ petList = <<>>
    /\ emptyState = CssDisplay
    /\ petCount = 0
    /\ timers = <<>>
    /\ display = [p \in PageIds |-> CssDisplay]
    /\ active = [p \in PageIds |-> FALSE]
    /\ navActive = ""
    /\ history = <<"">>
    /\ histIdx = 1
    /\ last = Op("none", 0, "none")
    /\ call = NoCall
    /\ mutated = FALSE
    /\ failedWrites = 0
    /\ peer = NoPeer

appVars == <<variant, peer, phase, now, themeVars, formVars, inputVars, viewVars, timers,
             routerVars, mutated, failedWrites>>

\* pets = loadPets()
loadStep(readOk) ==
    /\ last.op = "none"
    /\ loaded' = loadPets(petsEntry, readOk)
    /\ last' = Op("load", 0, IF readOk THEN "ok" ELSE "failed")
    /\ UNCHANGED <<appVars, pets, petsEntry, call>>

\* savePets(pets)
saveStep(writeOk) ==
    /\ last.op = "none"
    /\ petsEntry' = savePets(petsEntry, pets, writeOk)
    /\ last' = Op("save", 0, IF writeOk THEN "ok" ELSE "failed")
    /\ UNCHANGED <<appVars, pets, loaded, call>>

\* updatePet(id, newPetData)
updateStep(id, newPetData) ==
    /\ last.op = "none"
    /\ pets' = updatePet(pets, id, newPetData)
    /\ petsEntry' = IF findIndex(pets, id) # 0 THEN savePets(petsEntry, pets', TRUE)
                    ELSE petsEntry
    /\ call' = [draft |-> newPetData, before |-> pets]
    /\ last' = Op("update", id, IF findIndex(pets, id) # 0 THEN "ok" ELSE "none")
    /\ UNCHANGED <<appVars, loaded>>

NextRepo ==
    \/ \E readOk \in BOOLEAN : loadStep(readOk)
    \/ \E writeOk \in BOOLEAN : saveStep(writeOk)
    \/ \E id \in 1..(MaxClock + 1), d \in Drafts : updateStep(id, d)

SpecRepo == InitRepo /\ [][NextRepo]_vars

\* ---------------------------------------------------------------- properties
\* what renderPets shows for the current search box and filter
Displayed(ps) ==
    IF variant = "basic" THEN filteredPets_basic(ps, searchInput, filterSpecies)
    ELSE filteredPets(ps, searchInput, filterSpecies)

\* a step of handleFormSubmit: every handler names itself in last, Tick moves now
SubmitStep == last'.op = "submit" /\ now' = now

\* the record a submit builds from the fields frm for the id given
BuiltFrom(id, frm) ==
    [id |-> id, name |-> trim(frm.name), species |-> frm.species, age |-> parseInt(frm.age)]

NoHidePending == \A i \in 1..Len(timers) : timers[i].kind # "hide"

\* C1: once a mutation has completed and no write of 'pets' has failed, the
\* entry under 'pets' is the serialization of the whole in-memory collection,
\* in every state between two handlers and in every variant.
WriteThrough ==
    (mutated /\ failedWrites = 0) => petsEntry = JSONstringify(pets)

WriteThroughWitness ==
    /\ mutated /\ failedWrites = 0
    /\ last.op = "removed" /\ Len(pets) > 0

\* C2: when the delete callback removes the record the form is editing, the
\* controller is Idle afterwards and the form is empty, in every variant.
DeleteUnderEditResets ==
    [][ ( /\ editingPetId # 0
          /\ timers # <<>> /\ Head(timers).kind = "delete"
          /\ Head(timers).id = editingPetId
          /\ findIndex(pets, editingPetId) # 0
          /\ last'.op = "removed"
          /\ findIndex(pets', editingPetId) = 0 )
        => (editingPetId' = 0 /\ form' = EmptyForm) ]_vars

\* C3: after a render, the list shows a record iff its name or its species
\* contains the search term and the filter is all or equals its species, every
\* comparison made without regard to case, in every variant.
ShownBySpec(pet, term, filterValue) ==
    /\ \/ includes(toLowerCase(pet.name), toLowerCase(term))
       \/ includes(toLowerCase(pet.species), toLowerCase(term))
    /\ \/ filterValue = AllFilter
       \/ toLowerCase(pet.species) = toLowerCase(filterValue)

RenderShowsBySpec ==
    (phase = "running" /\ last.op \in {"init", "submit", "removed"})
    => petList = SelectSeq(pets, LAMBDA pet : ShownBySpec(pet, searchInput, filterSpecies))

\* C4: after handleLocation has run on a fragment that names no page, the
\* current history entry is #dashboard and, once no deactivation callback is
\* pending, dashboard is the active page and is displayed.
FallbackNavigated ==
    /\ variant = "routing" /\ phase = "running"
    /\ Len(history) = 2 /\ history[1] \notin PageIds \cup {""}

RouterFallbackSettles ==
    FallbackNavigated =>
        /\ history[histIdx] = "dashboard"
        /\ NoHidePending => /\ active["dashboard"] /\ ~active["manage-pet"]
                            /\ display["dashboard"] = "block"

\* C5: the ids of the records of the collection are pairwise distinct.
IdsPairwiseDistinct ==
    \A i, j \in 1..Len(pets) : i # j => pets[i].id # pets[j].id

\* C6: loadPets returns a sequence of records whatever the entry holds: the
\* stored records when the text deserializes, the empty sequence when the
\* entry is absent, when reading throws or when the text does not parse.
LoadReturnsSequence ==
    last.op = "load" =>
        /\ loaded.kind = "array"
        /\ (last.io = "ok" /\ petsEntry.kind = "array") => loaded.items = petsEntry.items
        /\ (last.io = "failed" \/ petsEntry.kind \in {"absent", "empty", "garbage"})
               => loaded.items = <<>>

\* C7: a write of 'pets' that fails is swallowed. The handler completes: the
\* collection carries the mutation, a submit leaves the form reset, the list is
\* rendered again; the entry is left as it was; and the entry changes later
\* only by the successful write of a later add, update or delete.
WriteFailureSwallowed ==
    [][ /\ (failedWrites' = failedWrites + 1) =>
            /\ petsEntry' = petsEntry
            /\ petList' = Displayed(pets')
            /\ last'.op \in {"submit", "removed"}
            /\ (last'.op = "submit") =>
                   /\ editingPetId' = 0 /\ form' = EmptyForm
                   /\ IF last'.id = 0
                      THEN /\ Len(pets') = Len(pets) + 1
                           /\ SubSeq(pets', 1, Len(pets)) = pets
                      ELSE \E frm \in FieldValues :
                               pets'[findIndex(pets, last'.id)] =
                                   BuiltFrom(last'.id, frm)
            /\ (last'.op = "removed") =>
                   /\ \A i \in 1..Len(pets') : pets'[i].id # last'.id
                   /\ Len(pets') < Len(pets) \/ pets' = pets
        /\ (petsEntry' # petsEntry) =>
            /\ last'.op \in {"submit", "removed"}
            /\ last'.io = "ok"
            /\ petsEntry' = JSONstringify(pets') ]_vars

WriteFailureSwallowedWitness ==
    /\ failedWrites > 0 /\ last.io = "failed" /\ last.op = "submit"
    /\ petsEntry # JSONstringify(pets)
    /\ editingPetId = 0 /\ Len(petList) > 0

\* C8: updatePet on an id of the collection puts, at the position of the first
\* record with that id, the old record with the fields of the draft laid over
\* it: a field the draft lacks keeps its value, the other records and the
\* length are unchanged.
UpdateTarget == findIndex(call.before, last.id)

UpdateMergesDraft ==
    (last.op = "update" /\ UpdateTarget # 0) =>
        /\ Len(pets) = Len(call.before)
        /\ \A j \in 1..Len(pets) : j # UpdateTarget => pets[j] = call.before[j]
        /\ DOMAIN pets[UpdateTarget] =
               (DOMAIN call.before[UpdateTarget]) \cup (DOMAIN call.draft)
        /\ \A k \in DOMAIN pets[UpdateTarget] :
               pets[UpdateTarget][k] = IF k \in DOMAIN call.draft THEN call.draft[k]
                                       ELSE call.before[UpdateTarget][k]

UpdateMergesDraftWitness ==
    /\ last.op = "update" /\ UpdateTarget = 2
    /\ DOMAIN call.draft = {"age"}
    /\ pets[2].age # call.before[2].age
    /\ pets[2].name = call.before[2].name /\ pets[2].id = last.id

\* C9: after add(d) has assigned the id i, the first record of the collection
\* whose id is i has the id i and the name, species and age of d.
AddFindRoundTrip ==
    [][ (SubmitStep /\ editingPetId = 0) =>
            \E frm \in FieldValues :
                /\ pets' = Append(pets, BuiltFrom(now, frm))
                /\ find(pets', now) = BuiltFrom(now, frm) ]_vars

\* C10: every submit ends Idle with the form cleared. In Idle it appends one
\* record built from the fields and leaves the others alone; in Editing(id) it
\* adds none, changes no record whose id is not id, and puts the fields over
\* the first record with that id when there is one.
SubmitEndsIdle ==
    [][ SubmitStep =>
            /\ editingPetId' = 0
            /\ form' = EmptyForm
            /\ (editingPetId = 0) =>
                   \E frm \in FieldValues :
                       checkValidity(frm) /\ pets' = Append(pets, BuiltFrom(now, frm))
            /\ (editingPetId # 0) =>
                   /\ Len(pets') = Len(pets)
                   /\ \A i \in 1..Len(pets) :
                          pets[i].id # editingPetId => pets'[i] = pets[i]
                   /\ \E frm \in FieldValues :
                          \A i \in 1..Len(pets) :
                              pets'[i] = IF i = findIndex(pets, editingPetId)
                                         THEN BuiltFrom(editingPetId, frm)
                                         ELSE pets[i] ]_vars

SubmitEndsIdleWitness ==
    /\ last.op = "submit" /\ last.id # 0 /\ last.io = "ok"
    /\ editingPetId = 0 /\ form = EmptyForm
    /\ Len(pets) = 2 /\ pets[2].id = last.id /\ pets[1].id # last.id

\* C11: cancel in Editing(id) ends Idle with the form cleared, and leaves the
\* in-memory collection and the entry under 'pets' as they were (the variants
\* with a cancel button: part_000 and part_001).
CancelStep == last'.op = "cancel" /\ now' = now

CancelLeavesRepository ==
    [][ (CancelStep /\ editingPetId # 0) =>
            /\ editingPetId' = 0
            /\ form' = EmptyForm
            /\ pets' = pets
            /\ petsEntry' = petsEntry ]_vars

CancelLeavesRepositoryWitness ==
    /\ last.op = "cancel" /\ last.id # 0
    /\ editingPetId = 0 /\ form = EmptyForm
    /\ findIndex(pets, last.id) # 0
    /\ petsEntry = JSONstringify(pets)

\* C12: the delete callback removes every record with the given id and no
\* other: the records with another id stay, unchanged and in their order, and
\* with no record of that id the collection is unchanged.
Hits(ps, id) == { j \in 1..Len(ps) : ps[j].id = id }

RemoveStep == last'.op = "removed" /\ now' = now

DeleteRemovesOnlyId ==
    [][ RemoveStep =>
            /\ Len(pets') = Len(pets) - Cardinality(Hits(pets, last'.id))
            /\ \A i \in 1..Len(pets) :
                   pets[i].id # last'.id =>
                       pets'[i - Cardinality({ j \in Hits(pets, last'.id) : j < i })] = pets[i]
            /\ (Hits(pets, last'.id) = {}) => pets' = pets ]_vars

DeleteRemovesOnlyIdWitness ==
    /\ last.op = "removed" /\ last.n = 0
    /\ Len(pets) = 1 /\ pets[1].id # last.id
    /\ petList = pets

\* C13: updatePet with an id no record has leaves the collection and the
\* entry under 'pets' as they were, and writes nothing.
UpdateAbsentIsNoOp ==
    [][ (SubmitStep /\ editingPetId # 0 /\ findIndex(pets, editingPetId) = 0) =>
            /\ pets' = pets
            /\ petsEntry' = petsEntry
            /\ last'.io = "none" ]_vars

UpdateAbsentIsNoOpWitness ==
    /\ last.op = "submit" /\ last.id # 0 /\ last.io = "none"
    /\ findIndex(pets, last.id) = 0
    /\ Len(pets) > 0

\* C14: a record keeps its id. A step that removes no record leaves the id at
\* every position, a step that removes some leaves the others as they were,
\* and a submit in Editing(id) leaves the record it updates with the id id.
IdIsImmutable ==
    [][ /\ (phase = "running" /\ Len(pets') >= Len(pets)) =>
               \A i \in 1..Len(pets) : pets'[i].id = pets[i].id
        /\ (phase = "running" /\ Len(pets') < Len(pets)) =>
               \A i \in 1..Len(pets') : \E j \in i..Len(pets) : pets'[i] = pets[j]
        /\ (SubmitStep /\ editingPetId # 0 /\ findIndex(pets, editingPetId) # 0) =>
               pets'[findIndex(pets, editingPetId)].id = editingPetId ]_vars

IdIsImmutableWitness ==
    /\ last.op = "submit" /\ last.id = 2 /\ last.io = "ok"
    /\ Len(pets) = 1 /\ pets[1].id = 2
    /\ pets[1].name = <<"m", "i", "a">> /\ pets[1].age = NaN

\* ---------------------------------------------------------------- the theme alone
\* The theme handlers read and write the theme state only; they run here on
\* every content of the 'theme' entry and both OS preferences.
ThemeEntries == { NoTheme, "", "light", "dark", "blue" }

\* toggleTheme(): setTheme sets the attribute, then writes the entry
toggleTheme(writeOk) ==
    /\ phase = "running"
    /\ dataTheme' = IF dataTheme = "light" THEN "dark" ELSE "light"
    /\ themeEntry' = IF writeOk THEN dataTheme' ELSE themeEntry
    /\ last' = Op("toggle", 0, IF writeOk THEN "ok" ELSE "failed")
    /\ UNCHANGED <<variant, peer, phase, now, repoVars, prefersDark, formVars, inputVars, viewVars,
                   timers, routerVars, call, mutated, failedWrites>>

InitTheme ==
    /\ variant \in Variants
    /\ phase = "boot"
    /\ petsEntry \in InitialEntries
    /\ now = Len(petsEntry.items) + 1
    /\ pets = <<>>
    /\ loaded = ArrayValue(<<>>)
    /\ themeEntry \in ThemeEntries
    /\ dataTheme = NoTheme
    /\ prefersDark \in BOOLEAN
    /\ editingPetId = 0
    /\ form = EmptyForm
    /\ searchInput = EmptyText
    /\ filterSpecies = AllFilter
    /\ petList = <<>>
    /\ emptyState = CssDisplay
    /\ petCount = 0
    /\ timers = <<>>
    /\ display = [p \in PageIds |-> CssDisplay]
    /\ active = [p \in PageIds |-> FALSE]
    /\ navActive = ""
    /\ history \in IF variant = "routing" THEN { <<h>> : h \in InitialHashes } ELSE { <<"">> }
    /\ histIdx = 1
    /\ last = Op("none", 0, "none")
    /\ call = NoCall
    /\ mutated = FALSE
    /\ failedWrites = 0
    /\ peer = NoPeer

NextTheme ==
    \/ \E r, tr, tw \in BOOLEAN : init_basic(r, tr, tw)
    \/ \E r, tr, tw \in BOOLEAN : init_cancel(r, tr, tw)
    \/ \E r, tr, tw \in BOOLEAN : init_routing(r, tr, tw)
    \/ \E ok \in BOOLEAN : toggleTheme(ok)

SpecTheme == InitTheme /\ [][NextTheme]_vars

\* a step of init that returns
InitStep == phase = "boot" /\ phase' = "running"

\* C15 as stated: the theme init applies is the stored value whenever there is
\* one, whatever the OS preference, else dark when the OS signals dark, else
\* light.
ThemePrecedenceAsStated ==
    [][ InitStep =>
            dataTheme' = IF themeEntry # NoTheme THEN themeEntry
                         ELSE IF prefersDark THEN "dark" ELSE "light" ]_vars

\* C15, amended: the theme init applies is the stored value when that value is
\* a non-empty string, whatever the OS preference; with no value or the empty
\* string stored it is dark when the OS signals dark and light otherwise.
ThemePrecedence ==
    [][ InitStep =>
            dataTheme' = IF themeEntry \notin { NoTheme, "" } THEN themeEntry
                         ELSE IF prefersDark THEN "dark" ELSE "light" ]_vars

ThemePrecedenceWitness ==
    /\ phase = "running" /\ last.op = "init"
    /\ dataTheme = "dark" /\ themeEntry = "dark" /\ ~prefersDark

\* C16: whatever 'theme' held at the start, once init has run and after every
\* toggle the applied theme is light or dark and is the value stored under
\* 'theme', and a toggle changes the applied theme to the other value.
ToggleStep == last'.op = "toggle" /\ now' = now

ThemeAppliedIsPersisted ==
    [][ /\ (phase' = "running") =>
               /\ dataTheme' \in { "light", "dark" }
               /\ themeEntry' = dataTheme'
        /\ ToggleStep => dataTheme' # dataTheme ]_vars

\* C17: in the routing variant, a navigation that enters manage-pet while Idle
\* leaves the controller Idle and the form empty, one that enters it during an
\* edit keeps the target and the fields, and startEdit(id) on a record of the
\* collection ends with manage-pet the active page, the controller in
\* Editing(id) and the form holding the record's name, species and age.
NavStep == last'.op \in {"nav", "back"} /\ now' = now

EditStep == last'.op = "edit" /\ now' = now

ManagePetEntryKeepsEdit ==
    [][ /\ (NavStep /\ active'["manage-pet"]) =>
               IF editingPetId = 0
               THEN editingPetId' = 0 /\ form' = EmptyForm
               ELSE editingPetId' = editingPetId /\ form' = form
        /\ (EditStep /\ findIndex(pets, last'.id) # 0) =>
               /\ active' = [p \in PageIds |-> p = "manage-pet"]
               /\ display'["manage-pet"] = "block"
               /\ editingPetId' = last'.id
               /\ form'.name = find(pets, last'.id).name
               /\ form'.species = find(pets, last'.id).species
               /\ parseInt(form'.age) = IF find(pets, last'.id).age.t = "num"
                                        THEN find(pets, last'.id).age
                                        ELSE NaN ]_vars

ManagePetEntryKeepsEditWitness ==
    /\ variant = "routing" /\ last.op = "nav"
    /\ active["manage-pet"] /\ editingPetId # 0
    /\ findIndex(pets, editingPetId) # 0
    /\ form.name = find(pets, editingPetId).name
    /\ form.age = <<"3">>

\* C19: after a render the empty-state indicator is shown iff the list shows
\* no record, and the count is the number of records the list shows.
EmptyStateMatchesList ==
    phase = "running" =>
        /\ (emptyState = "block") <=> (Len(petList) = 0)
        /\ petCount = Len(petList)

\* C20: in the routing variant, once no deactivation callback is pending, the
\* page the last showPage call activated is displayed and no other page is
\* (stated for the navigations between the two pages; the navigation to an
\* unknown fragment is C4).
Visible(p) == display[p] = "block"

OneViewOnceSettled ==
    (variant = "routing" /\ phase = "running" /\ NoHidePending /\ ~FallbackNavigated) =>
        \A p \in PageIds : Visible(p) <=> active[p]

\* ---------------------------------------------------------------- the form alone
\* Submits with a name field that holds white space only, which the required
\* attribute lets through.
BlankInputs ==
    { [name |-> <<" ">>, species |-> <<"c", "a", "t">>, age |-> EmptyText] }

TypedValues == FormInputs \cup BlankInputs \cup {form}

NextForm ==
    \/ Tick
    \/ \E r, tr, tw \in BOOLEAN : init_basic(r, tr, tw)
    \/ \E r, tr, tw \in BOOLEAN : init_cancel(r, tr, tw)
    \/ \E r, tr, tw \in BOOLEAN : init_routing(r, tr, tw)
    \/ \E frm \in TypedValues : handleFormSubmit_basic(frm, TRUE)
    \/ \E frm \in TypedValues : handleFormSubmit_cancel(frm, TRUE)
    \/ \E frm \in TypedValues : handleFormSubmit_routing(frm, TRUE)
    \/ \E id \in 1..MaxClock : startEdit(id)
    \/ \E id \in 1..MaxClock : startEdit_routing(id)
    \/ hideCallback

SpecForm == Init /\ [][NextForm]_vars

\* C18: every record a submit adds or updates has a name that is not empty
\* after trimming, whatever the name field held when the required-field check
\* let the submit through.
SubmittedNameNonEmpty ==
    [][ SubmitStep =>
            \A i \in 1..Len(pets') :
                (i > Len(pets) \/ pets'[i] # pets[i]) => trim(pets'[i].name) # EmptyText ]_vars

\* ---------------------------------------------------------------- timers that fire
\* The event loop runs every callback whose delay has passed.
TimerFires ==
    \/ hideCallback
    \/ deleteCallback_basic(TRUE)
    \/ deleteCallback_cancel(TRUE)
    \/ deleteCallback_routing(TRUE)

SpecTimers == Init /\ [][Next]_vars /\ WF_vars(TimerFires)

\* the ids whose removal is scheduled
PendingDeletes ==
    { timers[k].id : k \in { j \in 1..Len(timers) : timers[j].kind = "delete" } }

InStore(entry, id) ==
    entry.kind = "array" /\ \E i \in 1..Len(entry.items) : entry.items[i].id = id

\* C21: a record whose deletion is scheduled stays in the collection and in
\* the entry under 'pets' through every step that is not its timer callback,
\* the callback removes it from both, and the callback does come: the record
\* is eventually absent.
TriggeredDeleteCompletes ==
    /\ [][ \A id \in PendingDeletes :
               findIndex(pets, id) # 0 =>
                   IF RemoveStep /\ last'.id = id
                   THEN findIndex(pets', id) = 0 /\ ~InStore(petsEntry', id)
                   ELSE findIndex(pets', id) # 0 /\ InStore(petsEntry', id) ]_vars
    /\ \A id \in 1..MaxClock :
           (id \in PendingDeletes /\ findIndex(pets, id) # 0) ~> (findIndex(pets, id) = 0)

TriggeredDeleteCompletesWitness ==
    /\ last.op = "removed" /\ last.n = 1
    /\ findIndex(pets, last.id) = 0 /\ ~InStore(petsEntry, last.id)
    /\ Len(pets) = 1 /\ editingPetId = pets[1].id

\* C22: between two handlers a non-null edit target is the id of a record of
\* the collection, so a submit in edit mode always finds its record: every
\* submit either adds a record or updates one.
EditTargetPresent ==
    /\ editingPetId # 0 => findIndex(pets, editingPetId) # 0
    /\ last.op = "submit" => last.io # "none"

\* C27: in every state between two handlers after init, the list shows, in
\* collection order, the records of the collection that pass the variant's
\* filter for the current search term and species filter.
DisplayedListFresh ==
    phase = "running" => petList = Displayed(pets)

\* C23: in the routing variant the handling of a back event shows the page
\* the entry navigated to names (dashboard for the empty fragment) and adds no
\* history entry: the entries are as they were and the current entry is the
\* one before.
BackStep == last'.op = "back" /\ now' = now

BackWalksHistory ==
    [][ BackStep =>
            /\ active' = [p \in PageIds |->
                             p = (IF history[histIdx - 1] \in PageIds
                                  THEN history[histIdx - 1] ELSE "dashboard")]
            /\ history' = history
            /\ histIdx' = histIdx - 1 ]_vars

\* C24: no store failure aborts init or a toggle. Whatever reads and writes
\* throw, init ends with its listeners registered, a theme applied and the
\* list rendered from the loaded collection, and a toggle changes the applied
\* theme.
StoreFailureNeverAborts ==
    [][ /\ (phase = "boot" /\ phase' # "boot") =>
               /\ phase' = "running"
               /\ dataTheme' # NoTheme
               /\ petList' = Displayed(pets')
        /\ ToggleStep => dataTheme' # dataTheme ]_vars

\* ---------------------------------------------------------------- save, then reload
\* pets = loadPets() of the next page load, after a savePets that succeeded
reloadStep ==
    /\ last.op = "save" /\ last.io = "ok"
    /\ loaded' = loadPets(petsEntry, TRUE)
    /\ last' = Op("reload", 0, "ok")
    /\ UNCHANGED <<appVars, pets, petsEntry, call>>

NextReload == NextRepo \/ reloadStep

SpecReload == InitRepo /\ [][NextReload]_vars

\* C25: loading the entry the last successful save wrote returns the
\* collection that was saved: the same records in the same order, each with
\* the id, name, species and age it had, a not-a-number age included.
ReloadReturnsSaved ==
    last.op = "reload" =>
        /\ loaded.kind = "array"
        /\ Len(loaded.items) = Len(pets)
        /\ \A i \in 1..Len(pets) : loaded.items[i] = pets[i]

\* ---------------------------------------------------------------- two tabs
\* The same script in a second tab on the same localStorage, by what it does
\* to its own collection and to the entry under 'pets'. Its user adds one pet.
PeerInputs == { [name |-> <<"B", "o">>, species |-> <<"c", "a", "t">>, age |-> <<"1">>] }

peerFrame == <<variant, phase, now, pets, loaded, themeVars, formVars, inputVars, viewVars,
               timers, routerVars, call, mutated, failedWrites>>

\* init in the second tab: pets = loadPets()
peerInit ==
    /\ ~peer.open
    /\ peer' = [peer EXCEPT !.open = TRUE, !.pets = loadPets(petsEntry, TRUE).items]
    /\ last' = Op("peer", 0, "none")
    /\ UNCHANGED <<peerFrame, petsEntry>>

\* handleFormSubmit in the second tab, in create mode: addPet, savePets
peerSubmit(frm) ==
    /\ peer.open /\ ~peer.added
    /\ checkValidity(frm)
    /\ Len(peer.pets) < MaxPets
    /\ peer' = [peer EXCEPT !.pets = addPet(peer.pets, petData(frm), now),
                            !.added = TRUE,
                            !.since = IF phase = "running"
                                      THEN @ \cup { spread([id |-> now], petData(frm)) }
                                      ELSE @]
    /\ petsEntry' = savePets(petsEntry, peer'.pets, TRUE)
    /\ last' = Op("peer", 0, "ok")
    /\ UNCHANGED peerFrame

\* the delete callback in the second tab: filter, savePets
peerRemove(id) ==
    /\ peer.open
    /\ findIndex(peer.pets, id) # 0
    /\ peer' = [peer EXCEPT !.pets = removePet(peer.pets, id)]
    /\ petsEntry' = savePets(petsEntry, peer'.pets, TRUE)
    /\ last' = Op("peer", id, "ok")
    /\ UNCHANGED peerFrame

InitTabs == Init /\ variant = "cancel"

NextTabs ==
    \/ Tick
    \/ \E r, tr, tw \in BOOLEAN : init_cancel(r, tr, tw)
    \/ \E frm \in FieldValues : handleFormSubmit_cancel(frm, TRUE)
    \/ \E id \in 1..MaxClock : deletePet(id)
    \/ deleteCallback_cancel(TRUE)
    \/ peerInit
    \/ \E frm \in PeerInputs : peerSubmit(frm)
    \/ \E id \in 1..MaxClock : peerRemove(id)

SpecTabs == InitTabs /\ [][NextTabs]_vars

\* C26: two tabs on one store are not coordinated. A tab's collection changes
\* only in its own handlers (it loads at its own init only); a save by a tab
\* leaves under 'pets' that tab's collection, and after a save by this tab the
\* entry holds none of the records the other tab saved after this tab loaded.
OwnSaveStep == last'.op \in {"submit", "removed"} /\ last'.io = "ok" /\ now' = now

PeerSaveStep == last'.op = "peer" /\ last'.io = "ok" /\ now' = now

TabsOverwriteEachOther ==
    [][ /\ OwnSaveStep =>
               /\ petsEntry' = JSONstringify(pets')
               /\ \A r \in peer.since : \A i \in 1..Len(petsEntry'.items) :
                      petsEntry'.items[i] # jsonRecord(r)
               /\ peer' = peer
        /\ PeerSaveStep =>
               /\ petsEntry' = JSONstringify(peer'.pets)
               /\ pets' = pets
        /\ (phase = "running" /\ pets' # pets) => OwnSaveStep
        /\ (peer.open /\ peer'.pets # peer.pets) => PeerSaveStep ]_vars

TabsOverwriteEachOtherWitness ==
    /\ last.op = "submit" /\ last.io = "ok"
    /\ peer.since # {}
    /\ \E i \in 1..Len(peer.pets) : peer.pets[i] \in peer.since
    /\ petsEntry = JSONstringify(pets)
    /\ Len(pets) = 2

====
